---- MODULE Spec2Model ----
(***************************************************************************)
(* Model of src/node/p2p_server/request_response_handler.rs of clutch-node: *)
(* the request/response handler of the peer synchronisation protocol.      *)
(*                                                                         *)
(* One event of the transport is handled at a time (the event loop awaits  *)
(* handle_request_response).  A handler is a sequence of steps; pc is the  *)
(* handler's position.  The chain state sits behind a tokio Mutex that     *)
(* other tasks of the node may hold as well.                               *)
(***************************************************************************)
EXTENDS Integers, Sequences, FiniteSets, TLC

(***************************************************************************)
(* Bounds of the model.                                                    *)
(***************************************************************************)
NumPeers == 2
MaxIndex == 2
MaxLen == 2
MaxSkip == 2
MaxLimit == 2
MaxInitHeight == 1
PeerHeight == 3
MaxRoundEvents == 7
MaxEvents == 1

Peers == 1..NumPeers
Indexes == 0..MaxIndex

(***************************************************************************)
(* Program constants.                                                      *)
(***************************************************************************)
SyncSkip == 1
SyncLimit == 100

(***************************************************************************)
(* DirectMessageType and its one-byte wire tags.                           *)
(***************************************************************************)
DirectMessageType ==
    {"Handshake", "GetBlockHeaders", "BlockHeaders", "GetBlockBodies", "BlockBodies"}

as_byte(message_type) ==
    CASE message_type = "Handshake"       -> 0
      [] message_type = "GetBlockHeaders" -> 1
      [] message_type = "BlockHeaders"    -> 2
      [] message_type = "GetBlockBodies"  -> 3
      [] message_type = "BlockBodies"     -> 4

\* Option<DirectMessageType>: "None" stands for None.
from_byte(byte) ==
    IF \E t \in DirectMessageType : as_byte(t) = byte
    THEN CHOOSE t \in DirectMessageType : as_byte(t) = byte
    ELSE "None"

(***************************************************************************)
(* Payload types.  A block is its index and whether its content passes     *)
(* the validation of import_block; a header is the block without its body. *)
(***************************************************************************)
Block == [index : Indexes, valid : BOOLEAN]
BlockHeader == [index : Indexes]

RECURSIVE SeqsUpTo(_, _)
SeqsUpTo(S, n) ==
    IF n = 0 THEN {<<>>}
    ELSE LET shorter == SeqsUpTo(S, n - 1)
         IN  shorter \cup {Append(s, x) : s \in {t \in shorter : Len(t) = n - 1}, x \in S}

Handshake == [latest_block_index : Indexes \cup {MaxIndex + 1}]
GetBlockHeaders ==
    [start_block_index : Indexes, skip : 0..MaxSkip, limit : (0..MaxLimit) \cup {SyncLimit}]
BlockHeaders == [block_headers : SeqsUpTo(BlockHeader, MaxLen)]
GetBlockBodies == [block_indexes : SeqsUpTo(Indexes, MaxLen)]
BlockBodies == [blocks : SeqsUpTo(Block, MaxLen)]

to_block_header(block) == [index |-> block.index]

to_block_indexes(block_headers) ==
    [k \in 1..Len(block_headers.block_headers) |-> block_headers.block_headers[k].index]

(***************************************************************************)
(* rlp_encoding: a length-prefixed encoding of the payload types as a      *)
(* sequence of bytes, and its decoder, which fails on a buffer that is     *)
(* not the encoding of a value of the type asked for.                      *)
(***************************************************************************)
RECURSIVE Flatten(_)
Flatten(ss) == IF ss = <<>> THEN <<>> ELSE Head(ss) \o Flatten(Tail(ss))

EncodeBool(b) == IF b THEN 1 ELSE 0
EncodeBlock(block) == <<block.index, EncodeBool(block.valid)>>
EncodeList(items) == <<Len(items)>> \o Flatten(items)

encode(message) ==
    LET fields == DOMAIN message
    IN  CASE "latest_block_index" \in fields -> <<message.latest_block_index>>
          [] "start_block_index" \in fields ->
                <<message.start_block_index, message.skip, message.limit>>
          [] "block_headers" \in fields ->
                EncodeList([k \in 1..Len(message.block_headers) |->
                                <<message.block_headers[k].index>>])
          [] "block_indexes" \in fields ->
                EncodeList([k \in 1..Len(message.block_indexes) |->
                                <<message.block_indexes[k]>>])
          [] "blocks" \in fields ->
                EncodeList([k \in 1..Len(message.blocks) |-> EncodeBlock(message.blocks[k])])

Err == [ok |-> FALSE]
Ok(value) == [ok |-> TRUE, value |-> value]

\* decode::<T>(payload), T named by the message kind that carries it.
decode(T, payload) ==
    LET n == Len(payload)
    IN  CASE T = "Handshake" ->
                IF n = 1 THEN Ok([latest_block_index |-> payload[1]]) ELSE Err
          [] T = "GetBlockHeaders" ->
                IF n = 3
                THEN Ok([start_block_index |-> payload[1], skip |-> payload[2],
                         limit |-> payload[3]])
                ELSE Err
          [] T = "BlockHeaders" ->
                IF n >= 1 /\ n = 1 + payload[1]
                THEN Ok([block_headers |-> [k \in 1..payload[1] |-> [index |-> payload[1 + k]]]])
                ELSE Err
          [] T = "GetBlockBodies" ->
                IF n >= 1 /\ n = 1 + payload[1]
                THEN Ok([block_indexes |-> [k \in 1..payload[1] |-> payload[1 + k]]])
                ELSE Err
          [] T = "BlockBodies" ->
                IF /\ n >= 1
                   /\ n = 1 + 2 * payload[1]
                   /\ \A k \in 1..payload[1] : payload[1 + 2 * k] \in {0, 1}
                THEN Ok([blocks |-> [k \in 1..payload[1] |->
                                        [index |-> payload[2 * k], valid |-> payload[1 + 2 * k] = 1]]])
                ELSE Err

\* Mutation: the tag byte is left out.
encode_message_untagged(message_type, message) == encode(message)

\* encode_message: the tag byte, then the encoded payload.
encode_message(message_type, message) ==
    <<as_byte(message_type)>> \o encode(message)

(***************************************************************************)
(* Blockchain: the chain state behind the mutex.  The node holds a set of  *)
(* imported blocks; its handshake declares the highest index it holds.     *)
(***************************************************************************)
Max(S) == CHOOSE x \in S : \A y \in S : y <= x

HeldIndexes(blockchain) == {b.index : b \in blockchain}

handshake(blockchain) == [latest_block_index |-> Max(HeldIndexes(blockchain))]

RECURSIVE Ascending(_)
Ascending(blocks) ==
    IF blocks = {} THEN <<>>
    ELSE LET first == CHOOSE b \in blocks : \A c \in blocks : b.index <= c.index
         IN  <<first>> \o Ascending(blocks \ {first})

get_blocks_with_limit_and_skip(blockchain, start, skip, limit) ==
    Ascending({b \in blockchain :
                  /\ skip > 0
                  /\ b.index >= start
                  /\ b.index < start + skip * limit
                  /\ (b.index - start) % skip = 0})

RECURSIVE get_blocks_by_indexes(_, _)
get_blocks_by_indexes(blockchain, block_indexes) ==
    IF block_indexes = <<>> THEN <<>>
    ELSE LET found == {b \in blockchain : b.index = Head(block_indexes)}
         IN  (IF found = {} THEN <<>> ELSE <<CHOOSE b \in found : TRUE>>)
                 \o get_blocks_by_indexes(blockchain, Tail(block_indexes))

\* import_block: Ok and the block is held afterwards, or Err and nothing changes.
import_block(blockchain, block) ==
    IF block.valid
    THEN [ok |-> TRUE, blockchain |-> blockchain \cup {block}]
    ELSE [ok |-> FALSE, blockchain |-> blockchain]

(***************************************************************************)
(* Inbound envelopes: the encodings of all payloads, and malformed ones:   *)
(* truncated payloads, an unknown tag byte, the empty buffer.              *)
(***************************************************************************)
Payloads == Handshake \cup GetBlockHeaders \cup BlockHeaders \cup GetBlockBodies \cup BlockBodies

KindOf(message) ==
    LET fields == DOMAIN message
    IN  CASE "latest_block_index" \in fields -> "Handshake"
          [] "start_block_index" \in fields -> "GetBlockHeaders"
          [] "block_headers" \in fields -> "BlockHeaders"
          [] "block_indexes" \in fields -> "GetBlockBodies"
          [] "blocks" \in fields -> "BlockBodies"

WellFormed == {encode_message(KindOf(m), m) : m \in Payloads}
Truncated == {SubSeq(e, 1, Len(e) - 1) : e \in {w \in WellFormed : Len(w) <= 4}}
UnknownTags == {5, 255}
UnknownTagged ==
    {<<t>> \o encode(m) : t \in UnknownTags,
                          m \in Handshake \cup {b \in BlockBodies : Len(b.blocks) <= 1}}
Envelopes == WellFormed \cup Truncated \cup UnknownTagged \cup {<<>>}

MessageEvents == {"Request", "Response"}
EventKinds == {"Request", "Response", "OutboundFailure", "InboundFailure", "ResponseSent"}

NoEvent == [kind |-> "None", peer |-> 0, request_id |-> 0, message |-> <<>>]
NoValue == [none |-> TRUE]

(***************************************************************************)
(* State.                                                                  *)
(*   blockchain        the chain state inside Arc<Mutex<Blockchain>>       *)
(*   lock              who holds the mutex: "free", "handler" or "other"   *)
(*   pc                position of the handler of the current event        *)
(*   event             the event being handled                             *)
(*   decoded           the handler's decoded payload                       *)
(*   blocks            the blocks of a BlockBodies response not yet tried  *)
(*   request_message   the encoded request about to be sent                *)
(*   response_message  the encoded response about to be sent               *)
(*   swarm             messages submitted to the transport while the       *)
(*                     current event is handled, in order                  *)
(*   log               diagnostics written while the current event is      *)
(*                     handled, in order                                   *)
(*   entry_blockchain  the chain state when the current event arrived      *)
(*   responded         per inbound request id, the number of responses     *)
(*   events            number of events delivered so far                   *)
(*   rounds            the requests of this handler that await their       *)
(*                     response: the peer, the kind of response awaited    *)
(*                     and the local height at which the round started     *)
(*   inflight          the answers of honest peers to requests of this     *)
(*                     handler that are on their way back                  *)
(***************************************************************************)
VARIABLES blockchain, lock, pc, event, decoded, blocks, request_message,
          response_message, swarm, log, entry_blockchain, responded, events, rounds,
          inflight

vars == <<blockchain, lock, pc, event, decoded, blocks, request_message,
          response_message, swarm, log, entry_blockchain, responded, events, rounds,
          inflight>>

locals == <<decoded, blocks, request_message, response_message>>

InitialChain(height) == {[index |-> i, valid |-> TRUE] : i \in 0..height}

Init ==
    /\ blockchain \in {InitialChain(h) : h \in 0..MaxInitHeight}
    /\ lock = "free"
    /\ pc = "idle"
    /\ event = NoEvent
    /\ decoded = NoValue
    /\ blocks = <<>>
    /\ request_message = <<>>
    /\ response_message = <<>>
    /\ swarm = <<>>
    /\ log = <<>>
    /\ entry_blockchain = blockchain
    /\ responded = [id \in 1..MaxEvents |-> 0]
    /\ events = 0
    /\ rounds = {}
    /\ inflight = {}

Logged(level, what, arg) == Append(log, [level |-> level, what |-> what, arg |-> arg])

\* Mutation: the failure is logged and answered with an empty response.
Panic_swallowed(what) ==
    /\ pc' = "send_response"
    /\ lock' = IF lock = "handler" THEN "free" ELSE lock
    /\ log' = Logged("panic", what, event.request_id)
    /\ response_message' = <<>>
    /\ UNCHANGED <<blockchain, event, decoded, blocks, request_message, swarm,
                   entry_blockchain, rounds, inflight, responded, events>>

\* A panic unwinds the handler: a guard it holds is dropped, nothing is sent,
\* and the call of handle_request_response never returns to the event loop.
Panic(what) ==
    /\ pc' = "panicked"
    /\ lock' = IF lock = "handler" THEN "free" ELSE lock
    /\ log' = Logged("panic", what, event.request_id)
    /\ UNCHANGED <<blockchain, event, locals, swarm, entry_blockchain, rounds, inflight, responded, events>>

\* blockchain.lock().await: the handler is suspended until the mutex is free.
\* Mutation: the handler goes on without taking the guard.
LockAwait_skipped(from, to) ==
    /\ pc = from
    /\ pc' = to
    /\ UNCHANGED <<blockchain, lock, event, locals, swarm, log, entry_blockchain, rounds, inflight, responded, events>>

LockAwait(from, to) ==
    /\ pc = from
    /\ lock = "free"
    /\ lock' = "handler"
    /\ pc' = to
    /\ UNCHANGED <<blockchain, event, locals, swarm, log, entry_blockchain, rounds, inflight, responded, events>>

(***************************************************************************)
(* handle_request_response: the event loop hands the next event of the     *)
(* transport to the handler.                                               *)
(***************************************************************************)
\* Mutation: a failed exchange is retried.
EventTarget_retrying(kind) ==
    CASE kind = "Request" -> "handle_request_message"
      [] kind = "Response" -> "handle_response_message"
      [] kind = "OutboundFailure" -> "send_request"
      [] OTHER -> "returned"

EventTarget(kind) ==
    CASE kind = "Request" -> "handle_request_message"
      [] kind = "Response" -> "handle_response_message"
      [] OTHER -> "returned"

inbound_event(kind, peer, message) ==
    /\ pc = "idle"
    /\ events' = events + 1
    /\ event' = [kind |-> kind, peer |-> peer, request_id |-> events + 1,
                 message |-> message]
    /\ entry_blockchain' = blockchain
    /\ swarm' = <<>>
    /\ decoded' = NoValue
    /\ blocks' = <<>>
    /\ request_message' = <<>>
    /\ response_message' = <<>>
    /\ pc' = EventTarget(kind)
    /\ log' = CASE kind = "OutboundFailure" ->
                     <<[level |-> "error", what |-> "outbound_failure", arg |-> peer]>>
                [] kind = "InboundFailure" ->
                     <<[level |-> "error", what |-> "inbound_failure", arg |-> peer]>>
                [] kind = "ResponseSent" ->
                     <<[level |-> "debug", what |-> "response_sent", arg |-> peer]>>
                [] OTHER -> <<>>
    /\ UNCHANGED <<blockchain, lock, responded, rounds>>

handle_request_response(kind, peer, message) ==
    /\ inbound_event(kind, peer, message)
    /\ UNCHANGED inflight

\* The request of this handler that the response being handled answers, if
\* there is one: it awaited a response of this kind from this peer.
Awaited(peer, kind) == {r \in rounds : r.peer = peer /\ r.awaiting = kind}

Answered ==
    IF event.kind = "Response" /\ event.message # <<>>
    THEN LET awaited == Awaited(event.peer, from_byte(event.message[1]))
         IN  IF awaited = {} THEN {} ELSE {CHOOSE r \in awaited : TRUE}
    ELSE {}

\* handle_request_response returns to the event loop: the handler's locals are
\* gone, what it submitted and logged is the transport's and the logger's, and
\* the request that the handled response answered is complete.
return ==
    /\ pc = "returned"
    /\ pc' = "idle"
    /\ event' = NoEvent
    /\ decoded' = NoValue
    /\ blocks' = <<>>
    /\ request_message' = <<>>
    /\ response_message' = <<>>
    /\ swarm' = <<>>
    /\ log' = <<>>
    /\ entry_blockchain' = blockchain
    /\ rounds' = rounds \ Answered
    /\ UNCHANGED <<blockchain, lock, responded, events, inflight>>

(***************************************************************************)
(* Inbound requests.                                                       *)
(***************************************************************************)
\* Mutation: an unknown kind is answered instead of dropped.
RequestTarget_answering(message_type) ==
    CASE message_type = "Handshake" -> "handle_handshake_request"
      [] message_type = "GetBlockHeaders" -> "handle_get_block_headers_request"
      [] message_type = "GetBlockBodies" -> "handle_get_block_bodies_request"
      [] OTHER -> "send_response"

RequestTarget(message_type) ==
    CASE message_type = "Handshake" -> "handle_handshake_request"
      [] message_type = "GetBlockHeaders" -> "handle_get_block_headers_request"
      [] message_type = "GetBlockBodies" -> "handle_get_block_bodies_request"
      [] OTHER -> "returned"

handle_request_message ==
    /\ pc = "handle_request_message"
    /\ IF event.message = <<>>
       THEN Panic("index_out_of_bounds")
       ELSE LET message_type == from_byte(event.message[1])
                target == RequestTarget(message_type)
            IN  /\ pc' = target
                /\ log' = IF target = "returned"
                          THEN Logged("error", "unknown_request_type", event.message[1])
                          ELSE log
                /\ UNCHANGED <<blockchain, lock, event, locals, swarm, entry_blockchain, rounds, inflight,
                               responded, events>>

\* The three request handlers: decode the payload, then build the response;
\* on a decode error the response message is Vec::new().
\* Mutation: a bare tag byte instead of the empty buffer.
DecodeFailureResponse_tagged == <<as_byte("Handshake")>>

DecodeFailureResponse == <<>>

HandleRequest(at, T, what, to) ==
    /\ pc = at
    /\ LET result == decode(T, Tail(event.message))
       IN  IF result.ok
           THEN /\ decoded' = result.value
                /\ pc' = to
                /\ UNCHANGED <<response_message, log>>
           ELSE /\ response_message' = DecodeFailureResponse
                /\ log' = Logged("error", what, event.peer)
                /\ pc' = "send_response"
                /\ UNCHANGED decoded
    /\ UNCHANGED <<blockchain, lock, event, blocks, request_message, swarm,
                   entry_blockchain, rounds, inflight, responded, events>>

handle_handshake_request ==
    HandleRequest("handle_handshake_request", "Handshake",
                  "decode_handshake_failed", "handshake_response")

handle_get_block_headers_request ==
    HandleRequest("handle_get_block_headers_request", "GetBlockHeaders",
                  "decode_get_block_headers_failed", "get_block_headers_response")

handle_get_block_bodies_request ==
    HandleRequest("handle_get_block_bodies_request", "GetBlockBodies",
                  "decode_get_block_bodies_failed", "get_block_bodies_response")

\* The three response builders: lock the chain state, query it (expect:
\* panic when the query fails), encode the answer; the guard is dropped
\* when the builder returns, before handle_request_message sends.
BuildResponse(at, failed, message_type, answer) ==
    /\ pc = at
    /\ lock = "handler"
    /\ \E query_ok \in BOOLEAN :
          IF query_ok
          THEN /\ response_message' = encode_message(message_type, answer)
               /\ lock' = "free"
               /\ pc' = "send_response"
               /\ UNCHANGED <<blockchain, event, decoded, blocks, request_message, swarm,
                              log, entry_blockchain, rounds, inflight, responded, events>>
          ELSE Panic(failed)

handshake_response_lock == LockAwait("handshake_response", "handshake_response_locked")

handshake_response ==
    BuildResponse("handshake_response_locked", "error get handshake response",
                  "Handshake", handshake(blockchain))

get_block_headers_response_lock ==
    LockAwait("get_block_headers_response", "get_block_headers_response_locked")

\* Mutation: the headers are returned in descending order.
HeadersOf_descending(found) ==
    [block_headers |-> [k \in 1..Len(found) |-> to_block_header(found[Len(found) + 1 - k])]]

HeadersOf(found) == [block_headers |-> [k \in 1..Len(found) |-> to_block_header(found[k])]]

get_block_headers_response ==
    BuildResponse("get_block_headers_response_locked", "Failed to get blocks",
                  "BlockHeaders",
                  HeadersOf(get_blocks_with_limit_and_skip(blockchain,
                      decoded.start_block_index, decoded.skip, decoded.limit)))

get_block_bodies_response_lock ==
    LockAwait("get_block_bodies_response", "get_block_bodies_response_locked")

\* Mutation: only the first block found is returned.
BodiesOf_first(found) == [blocks |-> IF found = <<>> THEN <<>> ELSE <<Head(found)>>]

BodiesOf(found) == [blocks |-> found]

get_block_bodies_response ==
    BuildResponse("get_block_bodies_response_locked", "Failed to get blocks",
                  "BlockBodies",
                  BodiesOf(get_blocks_by_indexes(blockchain, decoded.block_indexes)))

\* send_response: the response goes to the channel of the request; the
\* transport may refuse it, which is logged.
send_response ==
    /\ pc = "send_response"
    /\ swarm' = Append(swarm, [op |-> "send_response", peer |-> event.peer,
                               request_id |-> event.request_id,
                               message |-> response_message])
    /\ responded' = [responded EXCEPT ![event.request_id] = @ + 1]
    /\ \E accepted \in BOOLEAN :
          log' = IF accepted THEN log ELSE Logged("error", "send_response_failed", event.peer)
    /\ pc' = "returned"
    /\ UNCHANGED <<blockchain, lock, event, locals, entry_blockchain, rounds, inflight, events>>

(***************************************************************************)
(* Inbound responses.                                                      *)
(***************************************************************************)
\* Mutation: a response of unknown kind is imported as block bodies.
ResponseTarget_importing(message_type) ==
    CASE message_type = "Handshake" -> "handle_handshake_response"
      [] message_type = "BlockHeaders" -> "handle_block_headers_response"
      [] OTHER -> "handle_block_bodies_response"

ResponseTarget(message_type) ==
    CASE message_type = "Handshake" -> "handle_handshake_response"
      [] message_type = "BlockHeaders" -> "handle_block_headers_response"
      [] message_type = "BlockBodies" -> "handle_block_bodies_response"
      [] OTHER -> "returned"

handle_response_message ==
    /\ pc = "handle_response_message"
    /\ IF event.message = <<>>
       THEN Panic("index_out_of_bounds")
       ELSE LET message_type == from_byte(event.message[1])
                target == ResponseTarget(message_type)
            IN  /\ pc' = target
                /\ log' = IF target = "returned"
                          THEN Logged("error", "unknown_response_type", event.message[1])
                          ELSE log
                /\ UNCHANGED <<blockchain, lock, event, locals, swarm, entry_blockchain, rounds, inflight,
                               responded, events>>

\* handle_handshake_response, up to the lock: decode the payload.
handle_handshake_response ==
    /\ pc = "handle_handshake_response"
    /\ LET result == decode("Handshake", Tail(event.message))
       IN  IF result.ok
           THEN /\ decoded' = result.value
                /\ pc' = "handshake_lock"
                /\ UNCHANGED log
           ELSE /\ log' = Logged("error", "decode_handshake_failed", event.peer)
                /\ pc' = "returned"
                /\ UNCHANGED decoded
    /\ UNCHANGED <<blockchain, lock, event, blocks, request_message, response_message,
                   swarm, entry_blockchain, rounds, inflight, responded, events>>

handle_handshake_response_lock == LockAwait("handshake_lock", "handshake_locked")

\* Mutation: a peer at the same height triggers a sync as well.
NeedsSync_inclusive(current_block_index, received_block_index) ==
    current_block_index <= received_block_index

\* The node needs to sync when the peer declares a higher index than its own.
NeedsSync(current_block_index, received_block_index) ==
    current_block_index < received_block_index

\* Mutation: one block is asked for, the one the node already holds.
SyncRequest_single(current_block_index) ==
    [start_block_index |-> current_block_index, skip |-> SyncSkip, limit |-> 1]

SyncRequest(current_block_index) ==
    [start_block_index |-> current_block_index, skip |-> SyncSkip, limit |-> SyncLimit]

\* handle_handshake_response under the guard: read the local handshake
\* (unwrap: panic when the query fails), compare, encode the request.
handle_handshake_response_compare ==
    /\ pc = "handshake_locked"
    /\ lock = "handler"
    /\ \E query_ok \in BOOLEAN :
          IF query_ok
          THEN LET current_block_index == handshake(blockchain).latest_block_index
                   received_block_index == decoded.latest_block_index
               IN  /\ IF NeedsSync(current_block_index, received_block_index)
                      THEN /\ request_message' =
                                  encode_message("GetBlockHeaders", SyncRequest(current_block_index))
                           /\ log' = Logged("warn", "needs_syncing", event.peer)
                           /\ pc' = "send_request"
                           /\ UNCHANGED lock
                      ELSE /\ lock' = "free"
                           /\ pc' = "returned"
                           /\ UNCHANGED <<request_message, log>>
                   /\ UNCHANGED <<blockchain, event, decoded, blocks, response_message, swarm,
                                  entry_blockchain, rounds, inflight, responded, events>>
          ELSE Panic("unwrap_handshake")

\* handle_block_headers_response: decode, project to indexes, encode the request.
\* Mutation: the indexes are requested in reverse order.
BodiesRequest_reversed(block_headers) ==
    LET indexes == to_block_indexes(block_headers)
    IN  [block_indexes |-> [k \in 1..Len(indexes) |-> indexes[Len(indexes) + 1 - k]]]

BodiesRequest(block_headers) == [block_indexes |-> to_block_indexes(block_headers)]

\* Mutation: after a decode failure the bodies of no block are requested.
handle_block_headers_response_lenient ==
    /\ pc = "handle_block_headers_response"
    /\ LET result == decode("BlockHeaders", Tail(event.message))
       IN  IF result.ok
           THEN /\ decoded' = result.value
                /\ request_message' = encode_message("GetBlockBodies", BodiesRequest(result.value))
                /\ pc' = "send_request"
                /\ UNCHANGED log
           ELSE /\ log' = Logged("error", "decode_block_headers_failed", event.peer)
                /\ request_message' = encode_message("GetBlockBodies", [block_indexes |-> <<>>])
                /\ pc' = "send_request"
                /\ UNCHANGED decoded
    /\ UNCHANGED <<blockchain, lock, event, blocks, response_message, swarm,
                   entry_blockchain, rounds, inflight, responded, events>>

handle_block_headers_response ==
    /\ pc = "handle_block_headers_response"
    /\ LET result == decode("BlockHeaders", Tail(event.message))
       IN  IF result.ok
           THEN /\ decoded' = result.value
                /\ request_message' = encode_message("GetBlockBodies", BodiesRequest(result.value))
                /\ pc' = "send_request"
                /\ UNCHANGED log
           ELSE /\ log' = Logged("error", "decode_block_headers_failed", event.peer)
                /\ pc' = "returned"
                /\ UNCHANGED <<decoded, request_message>>
    /\ UNCHANGED <<blockchain, lock, event, blocks, response_message, swarm,
                   entry_blockchain, rounds, inflight, responded, events>>

\* send_request: the request goes to the peer the response came from.  In
\* handle_handshake_response the guard is still alive here and is dropped
\* when the match arm ends, right after the send.
RequestPeer(peer_id) == peer_id

\* What the request now outstanding awaits: a GetBlockHeaders request starts a
\* round at its start index and awaits BlockHeaders; a GetBlockBodies request
\* goes on with the round of the response it follows and awaits BlockBodies.
Awaiting(peer, message) ==
    IF message # <<>> /\ from_byte(message[1]) = "GetBlockHeaders"
    THEN LET request == decode("GetBlockHeaders", Tail(message))
         IN  [peer |-> peer, awaiting |-> "BlockHeaders",
              start |-> IF request.ok THEN request.value.start_block_index ELSE -1]
    ELSE [peer |-> peer, awaiting |-> "BlockBodies",
          start |-> IF Answered = {} THEN -1 ELSE (CHOOSE r \in Answered : TRUE).start]

submit_request ==
    /\ pc = "send_request"
    /\ swarm' = Append(swarm, [op |-> "send_request", peer |-> RequestPeer(event.peer),
                               request_id |-> 0, message |-> request_message])
    /\ rounds' = rounds \cup {Awaiting(RequestPeer(event.peer), request_message)}
    /\ lock' = IF lock = "handler" THEN "free" ELSE lock
    /\ pc' = "returned"
    /\ UNCHANGED <<blockchain, event, locals, log, entry_blockchain, responded, events>>

\* The request leaves the node; what the peer makes of it is not the
\* handler's business.
send_request ==
    /\ submit_request
    /\ UNCHANGED inflight

\* handle_block_bodies_response, up to the lock: decode the payload.
handle_block_bodies_response ==
    /\ pc = "handle_block_bodies_response"
    /\ LET result == decode("BlockBodies", Tail(event.message))
       IN  IF result.ok
           THEN /\ decoded' = result.value
                /\ blocks' = result.value.blocks
                /\ pc' = "import_lock"
                /\ UNCHANGED log
           ELSE /\ log' = Logged("error", "decode_block_bodies_failed", event.peer)
                /\ pc' = "returned"
                /\ UNCHANGED <<decoded, blocks>>
    /\ UNCHANGED <<blockchain, lock, event, request_message, response_message, swarm,
                   entry_blockchain, rounds, inflight, responded, events>>

handle_block_bodies_response_lock == LockAwait("import_lock", "import_loop")

\* Mutation: the loop stops at the first failed import.
RestAfterImport_aborting(rest, ok) == IF ok THEN rest ELSE <<>>

\* What is left of the batch after one import attempt: the loop goes on
\* with the next block whatever the result.
RestAfterImport(rest, ok) == rest

\* Mutation: importing a block drops the blocks held above it.
import_loop_truncating ==
    /\ pc = "import_loop"
    /\ lock = "handler"
    /\ blocks # <<>>
    /\ LET block == Head(blocks)
           result == import_block(blockchain, block)
       IN  /\ blockchain' = {b \in result.blockchain : b.index <= block.index}
           /\ log' = IF result.ok
                     THEN Logged("debug", "imported", block.index)
                     ELSE Logged("error", "import_failed", block.index)
           /\ blocks' = RestAfterImport(Tail(blocks), result.ok)
    /\ UNCHANGED <<lock, pc, event, decoded, request_message, response_message, swarm,
                   entry_blockchain, rounds, inflight, responded, events>>

\* One iteration of the import loop, under the guard.
import_loop ==
    /\ pc = "import_loop"
    /\ lock = "handler"
    /\ blocks # <<>>
    /\ LET block == Head(blocks)
           result == import_block(blockchain, block)
       IN  /\ blockchain' = result.blockchain
           /\ log' = IF result.ok
                     THEN Logged("debug", "imported", block.index)
                     ELSE Logged("error", "import_failed", block.index)
           /\ blocks' = RestAfterImport(Tail(blocks), result.ok)
    /\ UNCHANGED <<lock, pc, event, decoded, request_message, response_message, swarm,
                   entry_blockchain, rounds, inflight, responded, events>>

\* The loop is over: the guard is dropped and the handler returns.
import_done ==
    /\ pc = "import_loop"
    /\ lock = "handler"
    /\ blocks = <<>>
    /\ lock' = "free"
    /\ pc' = "returned"
    /\ UNCHANGED <<blockchain, event, locals, swarm, log, entry_blockchain, rounds, inflight, responded, events>>

(***************************************************************************)
(* Another task of the node that shares the Arc<Mutex<Blockchain>>.        *)
(***************************************************************************)
other_lock ==
    /\ lock = "free"
    /\ lock' = "other"
    /\ UNCHANGED <<blockchain, pc, event, locals, swarm, log, entry_blockchain, rounds, inflight, responded, events>>

other_unlock ==
    /\ lock = "other"
    /\ lock' = "free"
    /\ UNCHANGED <<blockchain, pc, event, locals, swarm, log, entry_blockchain, rounds, inflight, responded, events>>

Next ==
    \/ /\ pc = "idle"
       /\ events < MaxEvents
       /\ \E kind \in MessageEvents, peer \in Peers, message \in Envelopes :
             handle_request_response(kind, peer, message)
    \/ /\ pc = "idle"
       /\ events < MaxEvents
       /\ \E kind \in EventKinds \ MessageEvents, peer \in Peers :
             handle_request_response(kind, peer, <<>>)
    \/ return
    \/ handle_request_message
    \/ handle_handshake_request
    \/ handle_get_block_headers_request
    \/ handle_get_block_bodies_request
    \/ handshake_response_lock
    \/ handshake_response
    \/ get_block_headers_response_lock
    \/ get_block_headers_response
    \/ get_block_bodies_response_lock
    \/ get_block_bodies_response
    \/ send_response
    \/ handle_response_message
    \/ handle_handshake_response
    \/ handle_handshake_response_lock
    \/ handle_handshake_response_compare
    \/ handle_block_headers_response
    \/ send_request
    \/ handle_block_bodies_response
    \/ handle_block_bodies_response_lock
    \/ import_loop
    \/ import_done
    \/ other_lock
    \/ other_unlock

Spec == Init /\ [][Next]_vars

TypeOK ==
    /\ lock \in {"free", "handler", "other"}
    /\ events \in 0..MaxEvents
    /\ \A b \in blockchain : b.valid

(***************************************************************************)
(* Sync rounds with honest peers.  Every peer runs this handler over the   *)
(* same chain, which extends the local one; its Handshake responses        *)
(* declare that chain's height, and each request of the local handler is   *)
(* answered as get_block_headers_response and get_block_bodies_response    *)
(* answer it.  Answers stay in flight until they are delivered, in any     *)
(* order.                                                                  *)
(***************************************************************************)
PeerChain == InitialChain(PeerHeight)

peer_response(message) ==
    LET message_type == from_byte(message[1])
        request == decode(message_type, Tail(message)).value
    IN  CASE message_type = "GetBlockHeaders" ->
                encode_message("BlockHeaders",
                    HeadersOf(get_blocks_with_limit_and_skip(PeerChain,
                        request.start_block_index, request.skip, request.limit)))
          [] message_type = "GetBlockBodies" ->
                encode_message("BlockBodies",
                    BodiesOf(get_blocks_by_indexes(PeerChain, request.block_indexes)))

\* A Handshake response of an honest peer arrives.
peer_handshake ==
    /\ pc = "idle"
    /\ events < MaxRoundEvents
    /\ \E peer \in Peers :
          handle_request_response("Response", peer,
                                  encode_message("Handshake", handshake(PeerChain)))

\* send_request, to an honest peer: its answer is on the way back.
request_to_peer ==
    /\ submit_request
    /\ inflight' = inflight \cup {[peer |-> RequestPeer(event.peer),
                                   message |-> peer_response(request_message)]}

\* An answer in flight arrives as a Response event.
peer_answer ==
    /\ pc = "idle"
    /\ events < MaxRoundEvents
    /\ \E answer \in inflight :
          /\ inbound_event("Response", answer.peer, answer.message)
          /\ inflight' = inflight \ {answer}

NextRound ==
    \/ peer_handshake
    \/ peer_answer
    \/ return
    \/ handle_response_message
    \/ handle_handshake_response
    \/ handle_handshake_response_lock
    \/ handle_handshake_response_compare
    \/ handle_block_headers_response
    \/ request_to_peer
    \/ handle_block_bodies_response
    \/ handle_block_bodies_response_lock
    \/ import_loop
    \/ import_done
    \/ other_lock
    \/ other_unlock

SpecRound == Init /\ [][NextRound]_vars

(***************************************************************************)
(* Vocabulary of the properties.                                           *)
(***************************************************************************)
Tag(message) == from_byte(message[1])

IsMessage(kind) == event.kind = kind /\ event.message # <<>>

\* The current event is a message of the given direction and kind whose
\* payload decodes / does not decode.
Decodable(kind, T) ==
    /\ IsMessage(kind)
    /\ Tag(event.message) = T
    /\ decode(T, Tail(event.message)).ok

Undecodable(kind, T) ==
    /\ IsMessage(kind)
    /\ Tag(event.message) = T
    /\ ~decode(T, Tail(event.message)).ok

Payload(T) == decode(T, Tail(event.message)).value

\* The submission s carries a well-formed envelope of kind T with payload value.
Carries(s, T, value) ==
    /\ s.message # <<>>
    /\ Tag(s.message) = T
    /\ decode(T, Tail(s.message)) = Ok(value)

ImportLog == SelectSeq(log, LAMBDA e : e.what \in {"imported", "import_failed"})

QueryFailures == {"error get handshake response", "Failed to get blocks"}

\* C1: once a decodable Handshake response declaring H_peer has been handled
\* with local height H_local, the handler has sent exactly one request, a
\* GetBlockHeaders {start = H_local, skip = 1, limit = 100} to the peer of the
\* response, if H_local < H_peer, and has sent nothing if H_local >= H_peer.
C1_HandshakeTriggersHeaderFetch ==
    (pc = "returned" /\ Decodable("Response", "Handshake")) =>
        LET H_peer == Payload("Handshake").latest_block_index
            H_local == handshake(entry_blockchain).latest_block_index
        IN  IF H_local < H_peer
            THEN /\ Len(swarm) = 1
                 /\ swarm[1].op = "send_request"
                 /\ swarm[1].peer = event.peer
                 /\ Carries(swarm[1], "GetBlockHeaders",
                            [start_block_index |-> H_local, skip |-> 1, limit |-> 100])
            ELSE swarm = <<>>

C1_Witness ==
    /\ pc = "returned"
    /\ Decodable("Response", "Handshake")
    /\ handshake(entry_blockchain).latest_block_index < Payload("Handshake").latest_block_index
    /\ Len(swarm) = 1

\* C2: once a decodable BlockHeaders response has been handled, the handler
\* has sent exactly one request, a GetBlockBodies to the peer of the response
\* whose index sequence is the sequence of the indices of the received
\* headers, in the same order.
C2_HeadersTriggerBodiesFetch ==
    (pc = "returned" /\ Decodable("Response", "BlockHeaders")) =>
        LET headers == Payload("BlockHeaders").block_headers
        IN  /\ Len(swarm) = 1
            /\ swarm[1].op = "send_request"
            /\ swarm[1].peer = event.peer
            /\ Carries(swarm[1], "GetBlockBodies",
                       [block_indexes |-> [k \in 1..Len(headers) |-> headers[k].index]])

C2_Witness ==
    /\ pc = "returned"
    /\ Decodable("Response", "BlockHeaders")
    /\ Len(Payload("BlockHeaders").block_headers) = 2
    /\ Payload("BlockHeaders").block_headers[1].index > Payload("BlockHeaders").block_headers[2].index
    /\ Len(swarm) = 1

\* C3: once a decodable BlockBodies response has been handled, there is one
\* import attempt per block of the response, in received order, each logged
\* with its block's index and its own result; every valid block of the
\* response is held, whatever failed before or after it, and nothing that
\* was held before is lost.
C3_EveryBlockIsAttempted ==
    (pc = "returned" /\ Decodable("Response", "BlockBodies")) =>
        LET received == Payload("BlockBodies").blocks
        IN  /\ Len(ImportLog) = Len(received)
            /\ \A k \in 1..Len(received) :
                  /\ ImportLog[k].arg = received[k].index
                  /\ (ImportLog[k].what = "imported") <=> received[k].valid
            /\ \A k \in 1..Len(received) : received[k].valid => received[k] \in blockchain
            /\ entry_blockchain \subseteq blockchain

C3_Witness ==
    /\ pc = "returned"
    /\ Decodable("Response", "BlockBodies")
    /\ Len(ImportLog) = 2
    /\ ImportLog[1].what = "import_failed"
    /\ ImportLog[2].what = "imported"
    /\ blockchain # entry_blockchain

\* C4: while and after an inbound request or response whose first byte is
\* not one of the five tags is handled, nothing is submitted to the
\* transport, the request gets no response, the chain state is the one of
\* the arrival, and the handler does nothing but return.
C4_UnknownTagIsDropped ==
    (event.kind \in MessageEvents /\ event.message # <<>> /\ Tag(event.message) = "None") =>
        /\ swarm = <<>>
        /\ responded[event.request_id] = 0
        /\ blockchain = entry_blockchain
        /\ pc \in {"handle_request_message", "handle_response_message", "returned"}

C4_Witness ==
    /\ pc = "returned"
    /\ event.kind = "Request"
    /\ event.message # <<>>
    /\ event.message[1] = 255
    /\ Len(log) = 1

\* C5: once an inbound request with a request tag and an undecodable payload
\* has been handled, the chain state is the one of the arrival and one
\* response has been sent on the channel of the request, of length zero.
C5_UndecodableRequestGetsEmptyResponse ==
    (/\ pc = "returned"
     /\ \E T \in {"Handshake", "GetBlockHeaders", "GetBlockBodies"} : Undecodable("Request", T)) =>
        /\ blockchain = entry_blockchain
        /\ Len(swarm) = 1
        /\ swarm[1].op = "send_response"
        /\ swarm[1].request_id = event.request_id
        /\ Len(swarm[1].message) = 0

C5_Witness ==
    /\ pc = "returned"
    /\ Undecodable("Request", "GetBlockHeaders")
    /\ Len(swarm) = 1

\* C6: once an inbound request with a request tag and a decodable payload has
\* been handled (the chain-state query having succeeded), exactly one
\* response has been sent on the channel of that request, tagged with the
\* answering kind; and no request ever has two responses.
AnsweringKind(T) ==
    CASE T = "Handshake" -> "Handshake"
      [] T = "GetBlockHeaders" -> "BlockHeaders"
      [] T = "GetBlockBodies" -> "BlockBodies"

C6_OneResponsePerRequest ==
    /\ \A id \in DOMAIN responded : responded[id] <= 1
    /\ \A T \in {"Handshake", "GetBlockHeaders", "GetBlockBodies"} :
          (pc = "returned" /\ Decodable("Request", T)) =>
              /\ Len(swarm) = 1
              /\ swarm[1].op = "send_response"
              /\ swarm[1].request_id = event.request_id
              /\ swarm[1].message # <<>>
              /\ Tag(swarm[1].message) = AnsweringKind(T)
              /\ responded[event.request_id] = 1

C6_Witness ==
    /\ pc = "returned"
    /\ Decodable("Request", "GetBlockBodies")
    /\ Len(swarm) = 1
    /\ Len(swarm[1].message) > 2
    /\ responded[event.request_id] = 1

\* C7: every message submitted to the transport is non-empty, its first byte
\* is one of the five tags, and the rest is the encoding of a payload of
\* that kind.
C7_EverySubmissionIsAnEnvelope ==
    \A k \in 1..Len(swarm) :
        /\ swarm[k].message # <<>>
        /\ Tag(swarm[k].message) # "None"
        /\ decode(Tag(swarm[k].message), Tail(swarm[k].message)).ok

\* C8: an inbound request or response with an empty envelope never makes the
\* handler panic; it is handled with nothing sent and the chain state
\* unchanged.
C8_EmptyEnvelopeIsHandled ==
    (event.kind \in MessageEvents /\ event.message = <<>>) =>
        /\ pc # "panicked"
        /\ swarm = <<>>
        /\ blockchain = entry_blockchain

\* C9: when a chain-state query fails while a decoded request is answered,
\* the handler invocation has ended in a panic, no response has been sent on
\* the channel of the request, and the chain state is the one of the arrival.
QueryFailed == \E k \in 1..Len(log) : log[k].what \in QueryFailures

C9_FailedQuerySendsNothing ==
    QueryFailed =>
        /\ pc = "panicked"
        /\ swarm = <<>>
        /\ responded[event.request_id] = 0
        /\ blockchain = entry_blockchain

C9_Witness ==
    /\ QueryFailed
    /\ pc = "panicked"
    /\ Decodable("Request", "GetBlockHeaders")
    /\ lock = "free"

\* C10: in every state in which the handler is about to submit a message to
\* the transport it does not hold the chain-state lock.
C10_NoSendUnderLock ==
    pc \in {"send_request", "send_response"} => lock # "handler"

\* C11: a decodable BlockHeaders response from a peer that no
\* GetBlockHeaders request of this handler awaits causes no request, and a
\* decodable BlockBodies response from a peer that no GetBlockBodies request
\* awaits causes no import attempt and no change of the chain state.
Solicited(T) == Awaited(event.peer, T) # {}

C11_UnsolicitedResponseIsIgnored ==
    /\ (Decodable("Response", "BlockHeaders") /\ ~Solicited("BlockHeaders")) =>
           \A k \in 1..Len(swarm) : swarm[k].op # "send_request"
    /\ (Decodable("Response", "BlockBodies") /\ ~Solicited("BlockBodies")) =>
           ImportLog = <<>> /\ blockchain = entry_blockchain

\* C12: a handled Handshake response causes at most one request, a
\* GetBlockHeaders; a handled BlockHeaders response at most one, a
\* GetBlockBodies; a handled BlockBodies response none; and a round goes
\* handshake, header fetch, body fetch, end: a GetBlockBodies request is only
\* sent after the BlockHeaders response that a GetBlockHeaders request of a
\* round awaited, so that nothing is requested after the round's end until
\* another Handshake response arrives.
RequestKinds == {Tag(swarm[k].message) : k \in {j \in 1..Len(swarm) : swarm[j].message # <<>>}}

C12_OneFetchPerHandshake ==
    (event.kind = "Response" /\ event.message # <<>>) =>
        /\ Len(swarm) <= 1
        /\ \A k \in 1..Len(swarm) : swarm[k].op = "send_request" /\ swarm[k].message # <<>>
        /\ Tag(event.message) = "Handshake" => RequestKinds \subseteq {"GetBlockHeaders"}
        /\ Tag(event.message) = "BlockHeaders" =>
              /\ RequestKinds \subseteq {"GetBlockBodies"}
              /\ swarm # <<>> => Solicited("BlockHeaders")
        /\ Tag(event.message) \notin {"Handshake", "BlockHeaders"} => swarm = <<>>

\* C13: while an outbound-failure, inbound-failure or response-sent event is
\* handled, and once it has been handled, nothing has been submitted to the
\* transport, no import has been attempted, the chain state is the one of the
\* event's arrival, and the handler has returned at once.
TransportEvents == EventKinds \ MessageEvents

C13_TransportEventIsDropped ==
    event.kind \in TransportEvents =>
        /\ pc = "returned"
        /\ swarm = <<>>
        /\ ImportLog = <<>>
        /\ blockchain = entry_blockchain

C13_Witness ==
    /\ pc = "returned"
    /\ event.kind = "OutboundFailure"
    /\ log # <<>>

\* C14: the chain state differs from the one of the event's arrival only
\* while, or after, the import loop of a decodable BlockBodies response runs:
\* an inbound request, a Handshake or BlockHeaders response, an undecodable
\* response, a response of unknown kind and a transport event leave it as it was.
C14_OnlyImportChangesChain ==
    blockchain # entry_blockchain =>
        /\ Decodable("Response", "BlockBodies")
        /\ pc \in {"import_loop", "returned"}
        /\ \E k \in 1..Len(log) : log[k].what = "imported"
        /\ entry_blockchain \subseteq blockchain

C14_Witness ==
    /\ pc = "returned"
    /\ blockchain # entry_blockchain
    /\ Decodable("Response", "BlockBodies")

\* C15: once a decodable GetBlockHeaders {start, skip, limit} request has
\* been handled, the one response sent is a BlockHeaders envelope of at most
\* limit headers, which are the headers of exactly the held blocks at the
\* indexes start, start + skip, ... below start + skip * limit, in strictly
\* ascending order of index.
RequestedIndexes(start, skip, limit) ==
    {i \in Indexes : /\ i < start + skip * limit
                     /\ \E k \in 0..(limit - 1) : i = start + k * skip}

C15_HeadersOfTheRequestedRange ==
    (pc = "returned" /\ Decodable("Request", "GetBlockHeaders")) =>
        LET request == Payload("GetBlockHeaders")
            wanted == RequestedIndexes(request.start_block_index, request.skip, request.limit)
                          \cap HeldIndexes(entry_blockchain)
        IN  /\ Len(swarm) = 1
            /\ swarm[1].op = "send_response"
            /\ swarm[1].message # <<>>
            /\ Tag(swarm[1].message) = "BlockHeaders"
            /\ decode("BlockHeaders", Tail(swarm[1].message)).ok
            /\ LET headers == decode("BlockHeaders", Tail(swarm[1].message)).value.block_headers
               IN  /\ Len(headers) <= request.limit
                   /\ {headers[k].index : k \in 1..Len(headers)} = wanted
                   /\ \A k \in 1..Len(headers) :
                         \E b \in entry_blockchain : headers[k] = to_block_header(b)
                   /\ \A k \in 1..(Len(headers) - 1) : headers[k].index < headers[k + 1].index

C15_Witness ==
    /\ pc = "returned"
    /\ Decodable("Request", "GetBlockHeaders")
    /\ Payload("GetBlockHeaders").skip = 1
    /\ Len(swarm) = 1
    /\ Len(swarm[1].message) = 4

\* C16: once a decodable GetBlockBodies request has been handled, the one
\* response sent is a BlockBodies envelope whose blocks are held blocks and
\* whose indexes are the requested sequence without the indexes that are not
\* held, in the order requested.
C16_BodiesInRequestedOrder ==
    (pc = "returned" /\ Decodable("Request", "GetBlockBodies")) =>
        LET requested == Payload("GetBlockBodies").block_indexes
            held == SelectSeq(requested, LAMBDA i : i \in HeldIndexes(entry_blockchain))
        IN  /\ Len(swarm) = 1
            /\ swarm[1].op = "send_response"
            /\ swarm[1].message # <<>>
            /\ Tag(swarm[1].message) = "BlockBodies"
            /\ decode("BlockBodies", Tail(swarm[1].message)).ok
            /\ LET bodies == decode("BlockBodies", Tail(swarm[1].message)).value.blocks
               IN  /\ [k \in 1..Len(bodies) |-> bodies[k].index] = held
                   /\ \A k \in 1..Len(bodies) : bodies[k] \in entry_blockchain

C16_Witness ==
    /\ pc = "returned"
    /\ Decodable("Request", "GetBlockBodies")
    /\ Payload("GetBlockBodies").block_indexes = <<1, 0>>
    /\ Len(swarm) = 1
    /\ Len(swarm[1].message) = 6

\* C17: from before the first import attempt of a batch until after the
\* last one the handler holds the guard of the chain state, so that no other
\* task holds it between two imports of the batch.
C17_BatchImportedUnderOneGuard ==
    (pc = "import_loop" \/ (pc = "returned" /\ ImportLog # <<>>)) =>
        IF pc = "import_loop" THEN lock = "handler" ELSE blocks = <<>>

C17_Witness ==
    /\ pc = "import_loop"
    /\ Len(ImportLog) = 1
    /\ blocks # <<>>
    /\ blockchain # entry_blockchain

\* C18: while and after a Handshake, BlockHeaders or BlockBodies response
\* whose payload does not decode is handled, nothing is submitted to the
\* transport, no import is attempted, the chain state is unchanged, and the
\* handler does not panic: it logs the failure and returns.
RecognizedResponses == {"Handshake", "BlockHeaders", "BlockBodies"}

C18_UndecodableResponseAbandonsRound ==
    \A T \in RecognizedResponses :
        Undecodable("Response", T) =>
            /\ swarm = <<>>
            /\ ImportLog = <<>>
            /\ blockchain = entry_blockchain
            /\ pc \in {"handle_response_message", ResponseTarget(T), "returned"}
            /\ pc = "returned" => Len(log) = 1 /\ log[1].level = "error"

C18_Witness ==
    /\ pc = "returned"
    /\ Undecodable("Response", "BlockHeaders")
    /\ log # <<>>

\* C19: with honest peers ahead of the local chain, once the BlockBodies
\* response of a round that started at local height H_local has been
\* handled, the first import attempt of the batch was the block of index
\* H_local, which the node held already, and the local height is strictly
\* greater than H_local.
LocalHeight(chain) == handshake(chain).latest_block_index

RoundHandled == pc = "returned" /\ Decodable("Response", "BlockBodies") /\ Answered # {}

RoundStart == (CHOOSE r \in Answered : TRUE).start

C19_RoundMakesProgress ==
    RoundHandled =>
        /\ \A r \in Answered : r.start = RoundStart
        /\ RoundStart \in HeldIndexes(entry_blockchain)
        /\ ImportLog # <<>>
        /\ ImportLog[1].arg = RoundStart
        /\ LocalHeight(blockchain) > RoundStart

C19_Witness ==
    /\ RoundHandled
    /\ LocalHeight(entry_blockchain) = RoundStart
    /\ LocalHeight(blockchain) = PeerHeight
    /\ Len(ImportLog) > 1

\* C20: with honest peers that hold the same blocks, whatever the order in
\* which the responses of their rounds are handled, once the BlockBodies
\* response of a round has been handled the chain state is the one that this
\* round alone produces from the chain it started with, and no step of the
\* handler decreases the local height.
RECURSIVE ImportAll(_, _)
ImportAll(chain, batch) ==
    IF batch = <<>> THEN chain
    ELSE ImportAll(import_block(chain, Head(batch)).blockchain, Tail(batch))

RoundResult(start) ==
    LET headers == HeadersOf(get_blocks_with_limit_and_skip(PeerChain, start, SyncSkip, SyncLimit))
        bodies == get_blocks_by_indexes(PeerChain, to_block_indexes(headers))
    IN  ImportAll(InitialChain(start), bodies)

C20_OverlappingRoundsAreHarmless ==
    /\ [](RoundHandled => blockchain = RoundResult(RoundStart))
    /\ [][LocalHeight(blockchain') >= LocalHeight(blockchain)]_vars

C20_Witness ==
    /\ RoundHandled
    /\ LocalHeight(entry_blockchain) > RoundStart
    /\ blockchain = entry_blockchain
    /\ \E r \in rounds : r.peer # event.peer

====
